---- MODULE Spec2Model ----
(***************************************************************************)
(* The CSS selector builder of src/src/05-objects-tasks.js: the class      *)
(* SelectorChain and the facade cssSelectorBuilder.                        *)
(*                                                                         *)
(* A JavaScript string is modelled as the sequence of its characters, so   *)
(* that string concatenation is \o and the template literals of the code   *)
(* are concatenations with the literal characters they contain.            *)
(***************************************************************************)
EXTENDS Integers, Sequences, FiniteSets, TLC

(* ---------------- bounds and inputs ---------------- *)

\* number of SelectorChain instances that are created in one run
MaxBuilders == 2

\* number of calls (facade or method) in one run
MaxSteps == 4

\* the values passed to the part methods
Values == { <<"t", "d">> }

\* the combinator strings passed to combine
Combinators == { <<" ">>, <<"+">> }

VARIABLES
    chains,   \* the SelectorChain instances created so far, by index
    prev,     \* history: chains as it was before the last call
    last,     \* history: the last call, its arguments and its outcome
    calls     \* history: per instance, the calls made on it since construction

vars == <<chains, prev, last, calls>>

(* ---------------- class SelectorChain ---------------- *)

\* variant: the counters are shared by the instances (a new instance starts
\* with the counters of the instance created before it)
NewChain_shared ==
    [ selectorChain      |-> <<>>,
      idCount            |-> IF chains = <<>> THEN 0
                             ELSE chains[Len(chains)].idCount,
      elementCount       |-> IF chains = <<>> THEN 0
                             ELSE chains[Len(chains)].elementCount,
      pseudoElementCount |-> IF chains = <<>> THEN 0
                             ELSE chains[Len(chains)].pseudoElementCount,
      selectorOrder      |-> 0 ]

\* constructor()
NewChain ==
    [ selectorChain      |-> <<>>,
      idCount            |-> 0,
      elementCount       |-> 0,
      pseudoElementCount |-> 0,
      selectorOrder      |-> 0 ]

\* variant: the order check also rejects a part of the same rank
checkSelectorsOrder_strict(c, currentOrder) ==
    c.selectorOrder >= currentOrder

\* checkSelectorsOrder(currentOrder): TRUE when it throws
checkSelectorsOrder(c, currentOrder) ==
    c.selectorOrder > currentOrder

\* checkOccurence(): TRUE when it throws
checkOccurence(c) ==
    c.idCount > 1 \/ c.pseudoElementCount > 1 \/ c.elementCount > 1

\* The part methods yield the instance as the call leaves it and the error
\* thrown: "none", "occurrence" (the Error of checkOccurence) or "order"
\* (the Error of checkSelectorsOrder).
Thrown(c, e) == [ chain |-> c, err |-> e ]

\* variant: element checks the order before it counts the occurrence
element_orderFirst(c, value) ==
    IF checkSelectorsOrder(c, 1) THEN Thrown(c, "order")
    ELSE LET c1 == [c EXCEPT !.elementCount = @ + 1] IN
         IF checkOccurence(c1) THEN Thrown(c1, "occurrence")
         ELSE Thrown([c1 EXCEPT !.selectorChain = @ \o value,
                                !.selectorOrder = 1], "none")

\* variant: element writes the text before it checks
element_appendFirst(c, value) ==
    LET c1 == [c EXCEPT !.elementCount = @ + 1,
                        !.selectorChain = @ \o value] IN
    IF checkOccurence(c1) THEN Thrown(c1, "occurrence")
    ELSE IF checkSelectorsOrder(c1, 1) THEN Thrown(c1, "order")
    ELSE Thrown([c1 EXCEPT !.selectorOrder = 1], "none")

\* variant: element counts its occurrence only when it is accepted
element_countOnSuccess(c, value) ==
    IF c.elementCount >= 1 \/ checkOccurence(c) THEN Thrown(c, "occurrence")
    ELSE IF checkSelectorsOrder(c, 1) THEN Thrown(c, "order")
    ELSE Thrown([c EXCEPT !.elementCount = @ + 1,
                          !.selectorChain = @ \o value,
                          !.selectorOrder = 1], "none")

element(c, value) ==
    LET c1 == [c EXCEPT !.elementCount = @ + 1] IN
    IF checkOccurence(c1) THEN Thrown(c1, "occurrence")
    ELSE IF checkSelectorsOrder(c1, 1) THEN Thrown(c1, "order")
    ELSE Thrown([c1 EXCEPT !.selectorChain = @ \o value,
                           !.selectorOrder = 1], "none")

\* variant: id leaves out the hash sign
id_noHash(c, value) ==
    LET c1 == [c EXCEPT !.idCount = @ + 1] IN
    IF checkOccurence(c1) THEN Thrown(c1, "occurrence")
    ELSE IF checkSelectorsOrder(c1, 2) THEN Thrown(c1, "order")
    ELSE Thrown([c1 EXCEPT !.selectorChain = @ \o value,
                           !.selectorOrder = 2], "none")

\* variant: id does not count its occurrence
id_noCount(c, value) ==
    IF checkOccurence(c) THEN Thrown(c, "occurrence")
    ELSE IF checkSelectorsOrder(c, 2) THEN Thrown(c, "order")
    ELSE Thrown([c EXCEPT !.selectorChain = @ \o <<"#">> \o value,
                          !.selectorOrder = 2], "none")

id(c, value) ==
    LET c1 == [c EXCEPT !.idCount = @ + 1] IN
    IF checkOccurence(c1) THEN Thrown(c1, "occurrence")
    ELSE IF checkSelectorsOrder(c1, 2) THEN Thrown(c1, "order")
    ELSE Thrown([c1 EXCEPT !.selectorChain = @ \o <<"#">> \o value,
                           !.selectorOrder = 2], "none")

\* variant: class assigns the text instead of appending to it
class_overwrite(c, value) ==
    IF checkSelectorsOrder(c, 3) THEN Thrown(c, "order")
    ELSE Thrown([c EXCEPT !.selectorChain = <<".">> \o value,
                          !.selectorOrder = 3], "none")

\* variant: class does not check the order
class_unchecked(c, value) ==
    Thrown([c EXCEPT !.selectorChain = @ \o <<".">> \o value,
                     !.selectorOrder = 3], "none")

class(c, value) ==
    IF checkSelectorsOrder(c, 3) THEN Thrown(c, "order")
    ELSE Thrown([c EXCEPT !.selectorChain = @ \o <<".">> \o value,
                          !.selectorOrder = 3], "none")

\* variant: attr leaves out the closing bracket
attr_unclosed(c, value) ==
    IF checkSelectorsOrder(c, 4) THEN Thrown(c, "order")
    ELSE Thrown([c EXCEPT !.selectorChain = @ \o <<"[">> \o value,
                          !.selectorOrder = 4], "none")

attr(c, value) ==
    IF checkSelectorsOrder(c, 4) THEN Thrown(c, "order")
    ELSE Thrown([c EXCEPT !.selectorChain = @ \o <<"[">> \o value \o <<"]">>,
                          !.selectorOrder = 4], "none")

\* variant: pseudoClass records the order of attr
pseudoClass_wrongOrder(c, value) ==
    IF checkSelectorsOrder(c, 5) THEN Thrown(c, "order")
    ELSE Thrown([c EXCEPT !.selectorChain = @ \o <<":">> \o value,
                          !.selectorOrder = 4], "none")

pseudoClass(c, value) ==
    IF checkSelectorsOrder(c, 5) THEN Thrown(c, "order")
    ELSE Thrown([c EXCEPT !.selectorChain = @ \o <<":">> \o value,
                          !.selectorOrder = 5], "none")

pseudoElement(c, value) ==
    IF checkSelectorsOrder(c, 6) THEN Thrown(c, "order")
    ELSE LET c1 == [c EXCEPT !.pseudoElementCount = @ + 1] IN
         IF checkOccurence(c1) THEN Thrown(c1, "occurrence")
         ELSE Thrown([c1 EXCEPT !.selectorChain = @ \o <<":", ":">> \o value,
                                !.selectorOrder = 6], "none")

\* variant: combine joins the operands with the bare combinator
combine_unpadded(c, selector1, combinator, selector2) ==
    [c EXCEPT !.selectorChain =
        selector1.selectorChain \o combinator \o selector2.selectorChain]

\* variant: combine starts the receiver afresh
combine_reset(c, selector1, combinator, selector2) ==
    [ selectorChain      |->
          selector1.selectorChain \o <<" ">> \o combinator \o <<" ">>
              \o selector2.selectorChain,
      idCount            |-> 0,
      elementCount       |-> 0,
      pseudoElementCount |-> 0,
      selectorOrder      |-> 0 ]

\* combine(selector1, combinator, selector2): the template literal is
\* evaluated on the operands before the assignment to this.selectorChain
combine(c, selector1, combinator, selector2) ==
    [c EXCEPT !.selectorChain =
        selector1.selectorChain \o <<" ">> \o combinator \o <<" ">>
            \o selector2.selectorChain]

\* variant: stringify returns the text and keeps it
stringify_keep(c) ==
    [ chain |-> c, ret |-> c.selectorChain ]

\* variant: stringify starts the instance afresh
stringify_reset(c) ==
    [ chain |-> NewChain, ret |-> c.selectorChain ]

\* stringify(): the instance as the call leaves it, and the returned string
stringify(c) ==
    [ chain |-> [c EXCEPT !.selectorChain = <<>>],
      ret   |-> c.selectorChain ]

(* ---------------- calls ---------------- *)

PartKinds == {"element", "id", "class", "attr", "pseudoClass", "pseudoElement"}

\* the part method of the given name, applied to an instance
Part(kind, c, value) ==
    CASE kind = "element"       -> element(c, value)
      [] kind = "id"            -> id(c, value)
      [] kind = "class"         -> class(c, value)
      [] kind = "attr"          -> attr(c, value)
      [] kind = "pseudoClass"   -> pseudoClass(c, value)
      [] kind = "pseudoElement" -> pseudoElement(c, value)

Builders == 1..Len(chains)

RECURSIVE TotalCalls(_, _)
TotalCalls(cs, n) ==
    IF n = 0 THEN 0 ELSE Len(cs[n]) + TotalCalls(cs, n - 1)

MayCall == TotalCalls(calls, Len(calls)) < MaxSteps

\* one entry of the call history
Call(op, value, left, combinator, right, err) ==
    [ op |-> op, value |-> value, left |-> left, combinator |-> combinator,
      right |-> right, err |-> err ]

\* the record of the last call: ret is the string that stringify returns,
\* returned is the instance that a part method, combine or a facade
\* function returns (0 when the call throws or returns a string)
Last(op, facade, self, value, left, combinator, right, err, ret, returned) ==
    [ op |-> op, facade |-> facade, self |-> self, value |-> value,
      left |-> left, combinator |-> combinator, right |-> right,
      err |-> err, ret |-> ret, returned |-> returned ]

Init ==
    /\ chains = <<>>
    /\ prev = <<>>
    /\ calls = <<>>
    /\ last = Last("none", FALSE, 0, <<>>, 0, <<>>, 0, "none", <<>>, 0)

\* variant: a part method returns a copy that carries the part and leaves
\* its receiver as it was
CallPart_copying(kind, b, value) ==
    /\ MayCall
    /\ LET r == Part(kind, chains[b], value) IN
       /\ chains' = IF r.err = "none" THEN Append(chains, r.chain) ELSE chains
       /\ calls' = IF r.err = "none"
                   THEN Append(calls, Append(calls[b],
                            Call(kind, value, <<>>, <<>>, <<>>, r.err)))
                   ELSE [calls EXCEPT ![b] =
                            Append(@, Call(kind, value, <<>>, <<>>, <<>>, r.err))]
       /\ last' = Last(kind, FALSE, b, value, 0, <<>>, 0, r.err, <<>>,
                       IF r.err = "none" THEN Len(chains) + 1 ELSE 0)
    /\ prev' = chains

\* b.<kind>(value) on an existing instance
CallPart(kind, b, value) ==
    /\ MayCall
    /\ LET r == Part(kind, chains[b], value) IN
       /\ chains' = [chains EXCEPT ![b] = r.chain]
       /\ calls' = [calls EXCEPT ![b] =
                       Append(@, Call(kind, value, <<>>, <<>>, <<>>, r.err))]
       /\ last' = Last(kind, FALSE, b, value, 0, <<>>, 0, r.err, <<>>,
                       IF r.err = "none" THEN b ELSE 0)
    /\ prev' = chains

\* cssSelectorBuilder.<kind>(value): new SelectorChain().<kind>(value); the
\* instance is returned to the caller unless the method throws
FacadePart(kind, value) ==
    /\ MayCall
    /\ Len(chains) < MaxBuilders
    /\ LET r == Part(kind, NewChain, value)
           b == Len(chains) + 1 IN
       IF r.err = "none"
       THEN /\ chains' = Append(chains, r.chain)
            /\ calls' = Append(calls,
                           <<Call(kind, value, <<>>, <<>>, <<>>, r.err)>>)
            /\ last' = Last(kind, TRUE, b, value, 0, <<>>, 0, r.err, <<>>, b)
       ELSE /\ UNCHANGED <<chains, calls>>
            /\ last' = Last(kind, TRUE, 0, value, 0, <<>>, 0, r.err, <<>>, 0)
    /\ prev' = chains

Element(b, value)       == CallPart("element", b, value)
Id(b, value)            == CallPart("id", b, value)
Class(b, value)         == CallPart("class", b, value)
Attr(b, value)          == CallPart("attr", b, value)
PseudoClass(b, value)   == CallPart("pseudoClass", b, value)
PseudoElement(b, value) == CallPart("pseudoElement", b, value)

\* variant: combine reads its operands with stringify(), which empties them
Combine_consuming(b, s1, combinator, s2) ==
    /\ MayCall
    /\ chains' = [x \in DOMAIN chains |->
                     IF x = b
                     THEN combine(chains[b], chains[s1], combinator, chains[s2])
                     ELSE IF x \in {s1, s2} THEN stringify(chains[x]).chain
                     ELSE chains[x]]
    /\ calls' = [calls EXCEPT ![b] =
                    Append(@, Call("combine", <<>>, chains[s1].selectorChain,
                                   combinator, chains[s2].selectorChain, "none"))]
    /\ last' = Last("combine", FALSE, b, <<>>, s1, combinator, s2, "none",
                    <<>>, b)
    /\ prev' = chains

\* b.combine(selector1, combinator, selector2)
Combine(b, s1, combinator, s2) ==
    /\ MayCall
    /\ chains' = [chains EXCEPT
                     ![b] = combine(chains[b], chains[s1], combinator, chains[s2])]
    /\ calls' = [calls EXCEPT ![b] =
                    Append(@, Call("combine", <<>>, chains[s1].selectorChain,
                                   combinator, chains[s2].selectorChain, "none"))]
    /\ last' = Last("combine", FALSE, b, <<>>, s1, combinator, s2, "none",
                    <<>>, b)
    /\ prev' = chains

\* b.stringify()
Stringify(b) ==
    /\ MayCall
    /\ LET r == stringify(chains[b]) IN
       /\ chains' = [chains EXCEPT ![b] = r.chain]
       /\ last' = Last("stringify", FALSE, b, <<>>, 0, <<>>, 0, "none", r.ret, 0)
    /\ calls' = [calls EXCEPT ![b] =
                    Append(@, Call("stringify", <<>>, <<>>, <<>>, <<>>, "none"))]
    /\ prev' = chains

(* ---------------- the facade cssSelectorBuilder ---------------- *)

FacadeElement(value)       == FacadePart("element", value)
FacadeId(value)            == FacadePart("id", value)
FacadeClass(value)         == FacadePart("class", value)
FacadeAttr(value)          == FacadePart("attr", value)
FacadePseudoClass(value)   == FacadePart("pseudoClass", value)
FacadePseudoElement(value) == FacadePart("pseudoElement", value)

\* variant: the combined builder takes over the validation state of its
\* right operand
FacadeCombine_inheriting(s1, combinator, s2) ==
    /\ MayCall
    /\ Len(chains) < MaxBuilders
    /\ chains' = Append(chains,
                     combine(chains[s2], chains[s1], combinator, chains[s2]))
    /\ calls' = Append(calls,
                   <<Call("combine", <<>>, chains[s1].selectorChain,
                          combinator, chains[s2].selectorChain, "none")>>)
    /\ last' = Last("combine", TRUE, Len(chains) + 1, <<>>, s1, combinator, s2,
                    "none", <<>>, Len(chains) + 1)
    /\ prev' = chains

\* cssSelectorBuilder.combine(s1, combinator, s2)
FacadeCombine(s1, combinator, s2) ==
    /\ MayCall
    /\ Len(chains) < MaxBuilders
    /\ chains' = Append(chains, combine(NewChain, chains[s1], combinator, chains[s2]))
    /\ calls' = Append(calls,
                   <<Call("combine", <<>>, chains[s1].selectorChain,
                          combinator, chains[s2].selectorChain, "none")>>)
    /\ last' = Last("combine", TRUE, Len(chains) + 1, <<>>, s1, combinator, s2,
                    "none", <<>>, Len(chains) + 1)
    /\ prev' = chains

Next ==
    \/ \E b \in Builders, v \in Values : Element(b, v)
    \/ \E b \in Builders, v \in Values : Id(b, v)
    \/ \E b \in Builders, v \in Values : Class(b, v)
    \/ \E b \in Builders, v \in Values : Attr(b, v)
    \/ \E b \in Builders, v \in Values : PseudoClass(b, v)
    \/ \E b \in Builders, v \in Values : PseudoElement(b, v)
    \/ \E b \in Builders, s1 \in Builders, s2 \in Builders, c \in Combinators :
           Combine(b, s1, c, s2)
    \/ \E b \in Builders : Stringify(b)
    \/ \E v \in Values : FacadeElement(v)
    \/ \E v \in Values : FacadeId(v)
    \/ \E v \in Values : FacadeClass(v)
    \/ \E v \in Values : FacadeAttr(v)
    \/ \E v \in Values : FacadePseudoClass(v)
    \/ \E v \in Values : FacadePseudoElement(v)
    \/ \E s1 \in Builders, s2 \in Builders, c \in Combinators :
           FacadeCombine(s1, c, s2)

Spec == Init /\ [][Next]_vars

(* ---------------- the specification's vocabulary ---------------- *)

\* rank of a part kind in the required order
Rank(kind) ==
    CASE kind = "element"       -> 1
      [] kind = "id"            -> 2
      [] kind = "class"         -> 3
      [] kind = "attr"          -> 4
      [] kind = "pseudoClass"   -> 5
      [] kind = "pseudoElement" -> 6

\* the part kinds that may occur once per selector
Singleton == {"element", "id", "pseudoElement"}

\* rendered form of a part
RenderedForm(kind, value) ==
    CASE kind = "element"       -> value
      [] kind = "id"            -> <<"#">> \o value
      [] kind = "class"         -> <<".">> \o value
      [] kind = "attr"          -> <<"[">> \o value \o <<"]">>
      [] kind = "pseudoClass"   -> <<":">> \o value
      [] kind = "pseudoElement" -> <<":", ":">> \o value

\* the calls made on the receiver of the last call before that call
Before ==
    IF last.self = 0 THEN <<>>
    ELSE SubSeq(calls[last.self], 1, Len(calls[last.self]) - 1)

\* the rendered forms of a sequence of part calls, concatenated in call order
RECURSIVE Concatenation(_)
Concatenation(h) ==
    IF h = <<>> THEN <<>>
    ELSE RenderedForm(h[1].op, h[1].value) \o Concatenation(Tail(h))

\* rank of the part that was appended last in a history, 0 when there is none
RECURSIVE LastRank(_)
LastRank(h) ==
    IF h = <<>> THEN 0
    ELSE IF h[Len(h)].op \in PartKinds /\ h[Len(h)].err = "none"
         THEN Rank(h[Len(h)].op)
         ELSE LastRank(SubSeq(h, 1, Len(h) - 1))

AllParts(h) == \A i \in 1..Len(h) : h[i].op \in PartKinds
NoneFailed(h) == \A i \in 1..Len(h) : h[i].err = "none"
NonDecreasing(h) ==
    \A i \in 1..Len(h) - 1 : Rank(h[i].op) <= Rank(h[i + 1].op)
NoSingletonTwice(h) ==
    \A i, j \in 1..Len(h) :
        (i # j /\ h[i].op = h[j].op) => h[i].op \notin Singleton

(* ---------------- claims ---------------- *)

\* C1: when stringify() is called on a builder on which, since its creation
\* by the facade, only parts were appended, in non-decreasing rank and with
\* no singleton kind twice, then every one of these appends succeeded and
\* stringify() returns the rendered forms concatenated in call order.
C1_ValidChainRenders ==
    (last.op = "stringify" /\ Before # <<>> /\ AllParts(Before)
        /\ NonDecreasing(Before) /\ NoSingletonTwice(Before))
    => /\ NoneFailed(Before)
       /\ last.ret = Concatenation(Before)

\* element('td').attr('td').pseudoClass('td').stringify() gives 'td[td]:td'
C1_Witness ==
    /\ last.op = "stringify"
    /\ Len(Before) = 3
    /\ Before[1].op = "element"
    /\ Before[2].op = "attr"
    /\ Before[3].op = "pseudoClass"
    /\ last.ret = <<"t", "d", "[", "t", "d", "]", ":", "t", "d">>

\* C2: an append of a singleton kind (element, id, pseudoElement) to a
\* builder to which a part of that kind was appended successfully before
\* throws the occurrence error, whatever was called in between and whatever
\* the rank of the last part is.
C2_DuplicateRaised ==
    (last.op \in Singleton
        /\ \E i \in 1..Len(Before) :
               Before[i].op = last.op /\ Before[i].err = "none")
    => last.err = "occurrence"

\* a second element after a class: out of order as well, the occurrence
\* error is thrown
C2_Witness ==
    /\ last.op = "element"
    /\ last.err = "occurrence"
    /\ prev[last.self].selectorOrder = 3
    /\ \E i \in 1..Len(Before) :
           Before[i].op = "element" /\ Before[i].err = "none"

\* C3: on a builder on which no append has failed, an append of a kind that
\* did not occur yet throws the order error exactly when its rank is below
\* the rank of the part appended last, and an append of class, attr or
\* pseudoClass whose rank equals that rank succeeds.
C3_OrderRaisedIffLower ==
    (last.op \in PartKinds /\ last.self # 0 /\ NoneFailed(Before))
    => /\ (\A i \in 1..Len(Before) : Before[i].op # last.op)
              => (last.err = "order" <=> Rank(last.op) < LastRank(Before))
       /\ (last.op \notin Singleton /\ Rank(last.op) = LastRank(Before))
              => last.err = "none"

\* class after attr is rejected
C3_Witness ==
    /\ last.op = "class"
    /\ last.err = "order"
    /\ NoneFailed(Before)
    /\ LastRank(Before) = 4
    /\ \A i \in 1..Len(Before) : Before[i].op # "class"

\* C4: combine(left, combinator, right) sets the text of the receiver to the
\* text of left, a space, the combinator, a space and the text of right, as
\* these were at the call, whatever the receiver held.
C4_CombineText ==
    last.op = "combine"
    => chains[last.self].selectorChain =
           prev[last.left].selectorChain \o <<" ">> \o last.combinator
               \o <<" ">> \o prev[last.right].selectorChain

\* a nested combine with the descendant combinator: 'td + td   td'
C4_Witness ==
    /\ last.op = "combine"
    /\ last.combinator = <<" ">>
    /\ chains[last.self].selectorChain =
           <<"t", "d", " ", "+", " ", "t", "d", " ", " ", " ", "t", "d">>

\* C5: stringify() returns the text the builder held at the call and leaves
\* the text empty; a stringify() that follows a stringify() on the same
\* builder returns the empty string.
C5_StringifyResets ==
    last.op = "stringify"
    => /\ last.ret = prev[last.self].selectorChain
       /\ chains[last.self].selectorChain = <<>>
       /\ (Before # <<>> /\ Before[Len(Before)].op = "stringify")
              => last.ret = <<>>

\* the second of two stringify() calls on a builder that held a text
C5_Witness ==
    /\ last.op = "stringify"
    /\ Len(Before) >= 2
    /\ Before[Len(Before)].op = "stringify"
    /\ Before[Len(Before) - 1].op \in PartKinds
    /\ Before[Len(Before) - 1].err = "none"
    /\ last.ret = <<>>

\* C6: an append that throws leaves the text of the builder as it was
\* before the call.
C6_FailedAppendKeepsText ==
    (last.op \in PartKinds /\ last.self # 0 /\ last.err # "none")
    => chains[last.self].selectorChain = prev[last.self].selectorChain

\* a rejected append on a builder that holds a text
C6_Witness ==
    /\ last.op \in PartKinds
    /\ last.self # 0
    /\ last.err = "order"
    /\ Len(prev[last.self].selectorChain) > 2
    /\ chains[last.self].selectorChain = prev[last.self].selectorChain

\* the validation state of an instance
Validation(c) ==
    <<c.elementCount, c.idCount, c.pseudoElementCount, c.selectorOrder>>

\* C7 as stated: for every call b.combine(left, combinator, right), over all
\* builders b, left and right, the text, the counters and lastRank of left
\* and of right are after the call what they were before it.
C7_OperandsUnchanged ==
    last.op = "combine"
    => /\ chains[last.left] = prev[last.left]
       /\ chains[last.right] = prev[last.right]

\* C7 amended: for every call b.combine(left, combinator, right), the text
\* of left and of right is unchanged when the operand is not the receiver b
\* itself, and the counters and lastRank of left and of right are unchanged
\* in every case.
C7_OtherOperandsUnchanged ==
    last.op = "combine"
    => \A x \in {last.left, last.right} :
           /\ x # last.self => chains[x] = prev[x]
           /\ Validation(chains[x]) = Validation(prev[x])

\* a combine on an existing receiver with another builder as both operands
C7_Witness ==
    /\ last.op = "combine"
    /\ ~last.facade
    /\ last.left # last.self
    /\ last.right # last.self
    /\ prev[last.self].selectorChain # <<>>
    /\ prev[last.left].selectorChain # <<>>
    /\ chains[last.self].selectorChain # prev[last.self].selectorChain

\* the text that a history of calls is specified to leave
RECURSIVE Rendering(_)
Rendering(h) ==
    IF h = <<>> THEN <<>>
    ELSE LET e == h[Len(h)]
             t == Rendering(SubSeq(h, 1, Len(h) - 1)) IN
         CASE e.op = "stringify" -> <<>>
           [] e.op = "combine" ->
                 e.left \o <<" ">> \o e.combinator \o <<" ">> \o e.right
           [] e.op \in PartKinds /\ e.err = "none" ->
                 t \o RenderedForm(e.op, e.value)
           [] OTHER -> t

\* C8: the text of every builder is the rendering of the calls that
\* succeeded on it: an append adds its rendered form at the end, a combine
\* replaces the text by the composed string, a rejected append adds nothing
\* and stringify empties the text.
C8_TextReflectsCalls ==
    \A b \in Builders : chains[b].selectorChain = Rendering(calls[b])

\* a builder after an append, a combine, an append and a rejected append
C8_Witness ==
    /\ last.self # 0
    /\ last.err # "none"
    /\ Len(Before) = 3
    /\ Before[1].op \in PartKinds
    /\ Before[2].op = "combine"
    /\ Before[3].op = "id"
    /\ Before[3].err = "none"

\* C9: stringify() leaves the counters and lastRank as they were, so that
\* every append that the builder would have rejected before the stringify()
\* is rejected after it with the same error.
C9_StringifyKeepsValidation ==
    last.op = "stringify"
    => /\ Validation(chains[last.self]) = Validation(prev[last.self])
       /\ \A k \in PartKinds, v \in Values :
              Part(k, prev[last.self], v).err # "none"
              => Part(k, chains[last.self], v).err
                     = Part(k, prev[last.self], v).err

\* stringify() on a builder that rejects a further element (occurrence) and
\* an id (order)
C9_Witness ==
    /\ last.op = "stringify"
    /\ last.ret # <<>>
    /\ chains[last.self].selectorChain = <<>>
    /\ \E v \in Values :
           /\ Part("element", chains[last.self], v).err = "occurrence"
           /\ Part("id", chains[last.self], v).err = "order"

\* C10 as stated: an append that follows a combine on the same builder is
\* accepted as on a fresh builder, on which every first append succeeds.
C10_AppendAfterCombineAsFresh ==
    (last.op \in PartKinds /\ Before # <<>>
        /\ Before[Len(Before)].op = "combine")
    => last.err = Part(last.op, NewChain, last.value).err

\* the receiver of the last call as it was before the call
Receiver == IF last.facade THEN NewChain ELSE prev[last.self]

\* C10 amended: combine replaces the text of the receiver only; its counters
\* and lastRank are kept, so that an append after the combine is accepted
\* or rejected as it would have been on the receiver right before the
\* combine; it is as on a fresh builder when the receiver was fresh.
C10_CombineKeepsValidation ==
    last.op = "combine"
    => /\ Validation(chains[last.self]) = Validation(Receiver)
       /\ \A k \in PartKinds, v \in Values :
              Part(k, chains[last.self], v).err = Part(k, Receiver, v).err

\* a combine on a builder with an element and a class
C10_Witness ==
    /\ last.op = "combine"
    /\ ~last.facade
    /\ prev[last.self].elementCount = 1
    /\ prev[last.self].selectorOrder = 3
    /\ \E v \in Values :
           Part("element", chains[last.self], v).err = "occurrence"

\* number of calls of a part kind in a history that satisfy a condition on
\* their outcome
RECURSIVE Count(_, _, _)
Count(h, kind, errs) ==
    IF h = <<>> THEN 0
    ELSE (IF h[1].op = kind /\ h[1].err \in errs THEN 1 ELSE 0)
             + Count(Tail(h), kind, errs)

Outcomes == {"none", "occurrence", "order"}

\* C11 as stated: each singleton counter of a builder is the number of
\* successful appends of its kind (a rejected append changes no counter).
C11_CountersCountAppended ==
    \A b \in Builders :
        /\ chains[b].elementCount = Count(calls[b], "element", {"none"})
        /\ chains[b].idCount = Count(calls[b], "id", {"none"})
        /\ chains[b].pseudoElementCount
               = Count(calls[b], "pseudoElement", {"none"})

\* C11 amended: each singleton counter of a builder is the number of calls
\* of the append of its kind on the builder, the rejected ones included: a
\* rejected element, id or pseudoElement append raises the counter of its
\* kind by one, and a rejected class, attr or pseudoClass append changes no
\* counter.
C11_CountersCountCalls ==
    /\ \A b \in Builders :
           /\ chains[b].elementCount = Count(calls[b], "element", Outcomes)
           /\ chains[b].idCount = Count(calls[b], "id", Outcomes)
           /\ chains[b].pseudoElementCount
                  = Count(calls[b], "pseudoElement", Outcomes)
    /\ (last.op \in PartKinds \ Singleton /\ last.self # 0)
           => /\ chains[last.self].elementCount = Receiver.elementCount
              /\ chains[last.self].idCount = Receiver.idCount
              /\ chains[last.self].pseudoElementCount
                     = Receiver.pseudoElementCount

\* a rejected second id: the id counter is 2 with one id appended
C11_Witness ==
    /\ last.op = "id"
    /\ last.err = "occurrence"
    /\ chains[last.self].idCount = 2
    /\ Count(calls[last.self], "id", {"none"}) = 1

IsPrefix(s, t) == Len(s) <= Len(t) /\ SubSeq(t, 1, Len(s)) = s

\* C12 as stated: no append and no combine makes the text of the builder
\* shorter than it was before the call.
C12_TextNeverShorter ==
    (last.op \in PartKinds \union {"combine"} /\ last.self # 0)
    => Len(chains[last.self].selectorChain) >= Len(Receiver.selectorChain)

\* C12 amended: no append, successful or rejected, makes the text of the
\* builder shorter: the text before the call is a prefix of the text after
\* it. (A combine replaces the text by the composed string, which is shorter
\* when the texts of the operands are short enough.)
C12_AppendExtendsText ==
    (last.op \in PartKinds /\ last.self # 0)
    => IsPrefix(Receiver.selectorChain, chains[last.self].selectorChain)

\* a class appended to a builder that holds a text
C12_Witness ==
    /\ last.op = "class"
    /\ last.err = "none"
    /\ ~last.facade
    /\ Len(prev[last.self].selectorChain) > 2
    /\ Len(chains[last.self].selectorChain)
           > Len(prev[last.self].selectorChain)

\* a builder as the specification has a facade entry construct it
Fresh ==
    [ selectorChain      |-> <<>>,
      idCount            |-> 0,
      elementCount       |-> 0,
      pseudoElementCount |-> 0,
      selectorOrder      |-> 0 ]

\* an operand of combine of which nothing but the text is given
TextOnly(t) == [Fresh EXCEPT !.selectorChain = t]

\* the builder that results when the calls of a history are run alone on a
\* builder of their own, the combines with the texts their operands had
RECURSIVE Alone(_)
Alone(h) ==
    IF h = <<>> THEN Fresh
    ELSE LET e == h[Len(h)]
             c == Alone(SubSeq(h, 1, Len(h) - 1)) IN
         CASE e.op \in PartKinds -> Part(e.op, c, e.value).chain
           [] e.op = "combine" ->
                 combine(c, TextOnly(e.left), e.combinator, TextOnly(e.right))
           [] e.op = "stringify" -> stringify(c).chain

\* C13: a facade call creates a new builder and applies its operation to
\* the empty text, counters 0 and lastRank 0; a call changes no builder but
\* its receiver; and under every interleaving of calls on the builders, the
\* state of each builder, the outcome of each of its appends and the string
\* each stringify returns are those of its own calls run alone, a combine
\* taking nothing from its operands but their texts.
C13_BuildersIndependent ==
    /\ \A b \in Builders :
           /\ chains[b] = Alone(calls[b])
           /\ \A i \in 1..Len(calls[b]) :
                  calls[b][i].op \in PartKinds
                  => calls[b][i].err
                         = Part(calls[b][i].op,
                                Alone(SubSeq(calls[b], 1, i - 1)),
                                calls[b][i].value).err
    /\ last.op = "stringify" => last.ret = stringify(Alone(Before)).ret
    /\ (last.facade /\ last.self # 0)
           => /\ last.self = Len(prev) + 1
              /\ Len(calls[last.self]) = 1
    /\ last.self # 0
           => \A x \in 1..Len(prev) : x # last.self => chains[x] = prev[x]

\* calls on two builders interleaved: the second builder is created and
\* called between the creation of the first and a rejected append on it
C13_Witness ==
    /\ Len(chains) = 2
    /\ Len(calls[1]) = 2
    /\ Len(calls[2]) = 2
    /\ calls[1][1].op = "id"
    /\ calls[2][1].op = "id"
    /\ last.self = 1
    /\ last.op = "element"
    /\ last.err = "order"

\* C14: a part method that does not throw, and combine, return the
\* instance they were called on, and create no instance: the builder that
\* the next call of a fluent chain is made on is the receiver itself. (A
\* facade function returns the instance it has created.)
C14_ReturnsReceiver ==
    (last.op \in PartKinds \union {"combine"} /\ last.err = "none")
    => /\ last.returned = last.self
       /\ last.returned \in Builders
       /\ Len(chains) = Len(prev) + (IF last.facade THEN 1 ELSE 0)

\* the third call of a chain on one instance
C14_Witness ==
    /\ last.op = "class"
    /\ ~last.facade
    /\ last.err = "none"
    /\ last.returned = last.self
    /\ Len(calls[last.self]) = 3
    /\ NoneFailed(calls[last.self])

\* C15: once an append on a builder has thrown the occurrence error, every
\* later append of element, id or pseudoElement on that builder throws the
\* occurrence error, whatever was called in between.
C15_DuplicateSticky ==
    (last.op \in Singleton
        /\ \E i \in 1..Len(Before) : Before[i].err = "occurrence")
    => last.err = "occurrence"

\* a first pseudoElement is rejected after a duplicate element and a
\* stringify
C15_Witness ==
    /\ last.op = "pseudoElement"
    /\ last.err = "occurrence"
    /\ Count(Before, "pseudoElement", Outcomes) = 0
    /\ Len(Before) = 3
    /\ Before[2].op = "element"
    /\ Before[2].err = "occurrence"
    /\ Before[3].op = "stringify"

\* the append of a part as the specification gives it: (a) count a
\* singleton kind and fail if a counter exceeds 1, (b) fail if the rank is
\* below lastRank, (c) append the rendered form, (d) set lastRank
Counted(kind, c) ==
    CASE kind = "element"       -> [c EXCEPT !.elementCount = @ + 1]
      [] kind = "id"            -> [c EXCEPT !.idCount = @ + 1]
      [] kind = "pseudoElement" -> [c EXCEPT !.pseudoElementCount = @ + 1]
      [] OTHER                  -> c

Reference(kind, c, value) ==
    LET a == Counted(kind, c) IN
    IF kind \in Singleton
          /\ (a.elementCount > 1 \/ a.idCount > 1 \/ a.pseudoElementCount > 1)
    THEN [ chain |-> a, err |-> "occurrence" ]
    ELSE IF Rank(kind) < a.selectorOrder
    THEN [ chain |-> a, err |-> "order" ]
    ELSE [ chain |-> [a EXCEPT
                         !.selectorChain = @ \o RenderedForm(kind, value),
                         !.selectorOrder = Rank(kind)],
           err |-> "none" ]

\* C16: every append has the outcome (success or which error) and leaves the
\* text, the counters and lastRank that the specified steps (a) to (d) give,
\* and in every reachable state of a builder each of the six appends would;
\* pseudoElement included, which checks the order before it counts.
C16_AppendRefinesReference ==
    /\ (last.op \in PartKinds /\ last.self # 0)
           => [ chain |-> chains[last.self], err |-> last.err ]
                  = Reference(last.op, Receiver, last.value)
    /\ \A b \in Builders, k \in PartKinds, v \in Values :
           Part(k, chains[b], v) = Reference(k, chains[b], v)

\* a second pseudoElement on a builder whose last part is a pseudoElement
C16_Witness ==
    /\ last.op = "pseudoElement"
    /\ last.err = "occurrence"
    /\ ~last.facade
    /\ prev[last.self].selectorOrder = 6
    /\ chains[last.self].pseudoElementCount = 2

\* C17: the builder that the facade's combine returns has counters 0 and
\* lastRank 0 whatever its operands hold, and a part appended to it as the
\* next call succeeds, its rendered form following the text of right.
C17_CombinedStartsFresh ==
    /\ (last.op = "combine" /\ last.facade)
           => Validation(chains[last.self]) = <<0, 0, 0, 0>>
    /\ (last.op \in PartKinds /\ Len(Before) = 1 /\ Before[1].op = "combine")
           => /\ last.err = "none"
              /\ chains[last.self].selectorChain =
                     Before[1].left \o <<" ">> \o Before[1].combinator
                         \o <<" ">> \o Before[1].right
                         \o RenderedForm(last.op, last.value)

\* an element appended to a combined builder whose right operand ends in a
\* pseudo-element
C17_Witness ==
    /\ last.op = "element"
    /\ last.err = "none"
    /\ Len(Before) = 1
    /\ Before[1].op = "combine"
    /\ Before[1].right = <<":", ":", "t", "d">>
    /\ chains[last.self].selectorChain =
           <<":", ":", "t", "d", " ", "+", " ", ":", ":", "t", "d", "t", "d">>

\* C18: lastRank of every builder is within 0..6; no call lowers it and a
\* rejected append leaves it as it was; so a part that is appended has a
\* rank not below the rank of any part appended to the builder before.
C18_LastRankMonotone ==
    /\ \A b \in Builders : chains[b].selectorOrder \in 0..6
    /\ last.self # 0
           => chains[last.self].selectorOrder >= Receiver.selectorOrder
    /\ (last.op \in PartKinds /\ last.self # 0 /\ last.err # "none")
           => chains[last.self].selectorOrder = Receiver.selectorOrder
    /\ (last.op \in PartKinds /\ last.err = "none")
           => \A i \in 1..Len(Before) :
                  (Before[i].op \in PartKinds /\ Before[i].err = "none")
                  => Rank(Before[i].op) <= Rank(last.op)

\* class, stringify, a rejected id and then attr on one builder
C18_Witness ==
    /\ last.op = "attr"
    /\ last.err = "none"
    /\ Len(Before) = 3
    /\ Before[1].op = "class"
    /\ Before[2].op = "stringify"
    /\ Before[3].op = "id"
    /\ Before[3].err = "order"
    /\ chains[last.self].selectorOrder = 4

====
